---------------------------- MODULE Spec2Model ----------------------------
(***************************************************************************)
(* Epsilon-tunnel rewriting over a traced fx graph.                        *)
(*                                                                         *)
(*   EpsTunnelRemoverFinder      editing/.../epstunnels/remover/finder.py  *)
(*   EpsTunnelConstructApplier   editing/.../epstunnels/simplifier/        *)
(*                               applier.py                                *)
(*   EpsTunnelRemover            newediting/.../epstunnels/                *)
(*                               epstunnelremover.py                       *)
(*                                                                         *)
(* A graph is a record over the node ids 1..MaxNodes; the id order is the  *)
(* order of g.graph.nodes.  Tensors (eps_in, eps_out, activations) are     *)
(* sequences of integers: one element is a scalar tensor, several are a    *)
(* per-channel tensor, and a scalar broadcasts against a per-channel one.  *)
(* The eps value 2 stands for any step size different from 1.0.            *)
(***************************************************************************)
EXTENDS Integers, Sequences, FiniteSets, TLC

\* Bounds of the model: the nodes of a graph, placeholder and output
\* included, and the application points of a batch passed by a caller.
MaxNodes == 4
MaxBatch == 2
MaxRuns == 2

\* The argument tuples of a traced call or output node hold one or two nodes.
ArgLens == {1, 2}

NodeIds == 1..MaxNodes

Range(s) == {s[i] : i \in DOMAIN s}

Max(a, b) == IF a >= b THEN a ELSE b

\* The elements of a set of node ids in graph order.
RECURSIVE InOrder(_)
InOrder(S) ==
    IF S = {} THEN << >>
    ELSE LET m == CHOOSE x \in S : \A y \in S : x <= y
         IN  <<m>> \o InOrder(S \ {m})

\* filter(pred, list) materialised: the elements with keep[x], order kept.
RECURSIVE FilterSeq(_, _)
FilterSeq(s, keep) ==
    IF s = << >> THEN << >>
    ELSE (IF Head(s) \in keep THEN <<Head(s)>> ELSE << >>) \o FilterSeq(Tail(s), keep)

(***************************************************************************)
(* Tensors                                                                 *)
(***************************************************************************)
At(t, i) == IF Len(t) = 1 THEN t[1] ELSE t[i]

\* a == b elementwise, with broadcasting of a scalar.
TensorEq(a, b) == [i \in 1..Max(Len(a), Len(b)) |-> At(a, i) = At(b, i)]

\* torch.all
TorchAll(bs) == \A i \in DOMAIN bs : bs[i]

\* torch.ones_like
OnesLike(t) == [i \in 1..Len(t) |-> 1]

(***************************************************************************)
(* The fx graph substrate (torch.fx: Node, Graph, GraphModule)             *)
(***************************************************************************)
\* users as fx keeps them: m is a user of n iff n occurs in m's args.
UsersOf(nodes, args) ==
    [n \in NodeIds |-> {m \in nodes : n \in Range(args[m])}]

\* Node.all_input_nodes: the distinct nodes among the arguments.
AllInputNodes(G, n) == Range(G.args[n])

IsCallModule(G, n) == G.op[n] = "call_module"

\* isinstance(g.get_submodule(target=n.target), EpsTunnel)
IsEpsTunnel(G, n) == n \in G.mods /\ G.cls[n] = "EpsTunnel"


\* Mutant: the rewired node is not entered among the users of its new input.
ReplaceInputWith_no_new_user(G, d, old, new) ==
    LET newargs == [i \in DOMAIN G.args[d] |->
                        IF G.args[d][i] = old THEN new ELSE G.args[d][i]]
    IN  [G EXCEPT !.args[d] = newargs,
                  !.users = [p \in NodeIds |->
                                IF p \in Range(newargs) THEN G.users[p]
                                ELSE G.users[p] \ {d}]]

\* Node.replace_input_with(old, new) on node d: every argument slot holding
\* old now holds new; fx then drops d from the users of its former inputs and
\* adds it to the users of its new ones.
ReplaceInputWith(G, d, old, new) ==
    LET newargs == [i \in DOMAIN G.args[d] |->
                        IF G.args[d][i] = old THEN new ELSE G.args[d][i]]
    IN  [G EXCEPT !.args[d] = newargs,
                  !.users = [p \in NodeIds |->
                                IF p \in Range(newargs) THEN G.users[p] \cup {d}
                                ELSE G.users[p] \ {d}]]

\* GraphModule.delete_submodule(target): the module and its tensors are gone.
DeleteSubmodule(G, n) ==
    [G EXCEPT !.mods = G.mods \ {n},
              !.cls[n] = "none",
              !.eps_in[n] = << >>,
              !.eps_out[n] = << >>]

\* Graph.erase_node(n), for a node without users: n leaves the node list and
\* its arguments are nulled, which drops it from its inputs' users.
EraseNode(G, n) ==
    [G EXCEPT !.nodes = G.nodes \ {n},
              !.args[n] = << >>,
              !.users = [p \in NodeIds |-> G.users[p] \ {n}]]

(***************************************************************************)
(* EpsTunnelRemoverFinder                                                  *)
(***************************************************************************)
is_identity_epstunnel(G, n) == TorchAll(TensorEq(G.eps_in[n], G.eps_out[n]))

\* The assertion of is_integerised_placeholder.
HasOnePredecessor(G, n) == Cardinality(AllInputNodes(G, n)) = 1

is_integerised_placeholder(G, n) ==
    LET predecessor == CHOOSE p \in AllInputNodes(G, n) : TRUE
    IN  /\ G.op[predecessor] = "placeholder"
        /\ TorchAll(TensorEq(G.eps_out[n], <<1>>))

\* Mutant: the test the name suggests, True for the node before the output.
is_output_node_inverted(G, n) ==
    LET users == InOrder(G.users[n])
    IN  IF Len(users) = 1
        THEN (IF G.op[users[1]] = "output" THEN TRUE ELSE FALSE)
        ELSE FALSE

\* False for a node whose only user is the output node, True otherwise.
is_output_node(G, n) ==
    LET users == InOrder(G.users[n])
    IN  IF Len(users) = 1
        THEN (IF G.op[users[1]] = "output" THEN FALSE ELSE TRUE)
        ELSE TRUE

\* The materialised list of EpsTunnel call-nodes, in graph order.
EpsTunnelNodes(G) ==
    LET module_nodes == FilterSeq(InOrder(G.nodes), {n \in NodeIds : IsCallModule(G, n)})
    IN  FilterSeq(module_nodes, {n \in NodeIds : IsEpsTunnel(G, n)})

\* Mutant: epstunnels left a one-shot filter object, which the first pass
\* exhausts, so that the second pass sees nothing.
Finder_find_consumed(G) ==
    LET epstunnels      == EpsTunnelNodes(G)
        identitytunnels == FilterSeq(epstunnels,
                               {n \in Range(epstunnels) : is_identity_epstunnel(G, n)})
        ls              == InOrder(Range(identitytunnels))
        not_output_node == FilterSeq(ls, {n \in Range(ls) : is_output_node(G, n)})
    IN  [ok |-> TRUE, aps |-> not_output_node]

\* find: [ok |-> FALSE] is the AssertionError of is_integerised_placeholder.
\* list(set(...)) fixes no order; the result is given in graph order and the
\* properties read it as a set with multiplicities.
Finder_find(G) ==
    LET epstunnels      == EpsTunnelNodes(G)
        identitytunnels == FilterSeq(epstunnels,
                               {n \in Range(epstunnels) : is_identity_epstunnel(G, n)})
        asserted        == \A n \in Range(epstunnels) : HasOnePredecessor(G, n)
        integerisedplhl == FilterSeq(epstunnels,
                               {n \in Range(epstunnels) :
                                    HasOnePredecessor(G, n) /\ is_integerised_placeholder(G, n)})
        ls              == InOrder(Range(identitytunnels \o integerisedplhl))
        not_output_node == FilterSeq(ls, {n \in Range(ls) : is_output_node(G, n)})
    IN  IF asserted THEN [ok |-> TRUE, aps |-> not_output_node]
        ELSE [ok |-> FALSE, aps |-> << >>]

\* Mutant: find deletes the submodule of every tunnel it returns.
Finder_find_graph_deleting(G) ==
    LET found == Range(Finder_find(G).aps)
    IN  [G EXCEPT !.mods = G.mods \ found,
                  !.cls = [n \in NodeIds |-> IF n \in found THEN "none" ELSE G.cls[n]]]

\* The graph after find(g): find reads g.graph.nodes, get_submodule, eps_in,
\* eps_out, all_input_nodes and users, keeps its lists in locals, and assigns
\* to nothing of g.
Finder_find_graph(G) == G

\* Mutant: the nodes are collected in a list, not in a set.
check_aps_commutativity_list(aps) == Len(aps) = Len([i \in DOMAIN aps |-> aps[i]])

check_aps_commutativity(aps) == Len(aps) = Cardinality(Range(aps))

(***************************************************************************)
(* EpsTunnelConstructApplier                                               *)
(***************************************************************************)
\* EpsTunnel.set_eps_out / set_eps_in on the module of node n.
set_eps_out(G, n, eps) == [G EXCEPT !.eps_out[n] = eps]
set_eps_in(G, n, eps) == [G EXCEPT !.eps_in[n] = eps]

\* for m in tunnels: m.set_eps_out(torch.ones_like(m.eps_out))
RECURSIVE IntegeriseOut(_, _)
IntegeriseOut(G, tunnels) ==
    IF tunnels = << >> THEN G
    ELSE IntegeriseOut(set_eps_out(G, Head(tunnels), OnesLike(G.eps_out[Head(tunnels)])),
                       Tail(tunnels))

\* for m in tunnels: m.set_eps_in(torch.ones_like(m.eps_in))
RECURSIVE IntegeriseIn(_, _)
IntegeriseIn(G, tunnels) ==
    IF tunnels = << >> THEN G
    ELSE IntegeriseIn(set_eps_in(G, Head(tunnels), OnesLike(G.eps_in[Head(tunnels)])),
                      Tail(tunnels))

\* Mutant: the outbound tunnels are taken from ap.backward too, as the
\* second printing loop does.
Construct_apply_backward_twice(G, backward, forward) ==
    IntegeriseIn(IntegeriseOut(G, backward), backward)

\* Mutant: the inbound tunnels are integerised on both of their sides.
Construct_apply_both_sides(G, backward, forward) ==
    IntegeriseIn(IntegeriseIn(IntegeriseOut(G, backward), backward), forward)

\* _apply: set_eps_out(ones) on the backward tunnels, then set_eps_in(ones)
\* on the forward tunnels; the graph itself is returned.
Construct_apply(G, backward, forward) ==
    IntegeriseIn(IntegeriseOut(G, backward), forward)

(***************************************************************************)
(* EpsTunnelRemover                                                        *)
(***************************************************************************)
\* Mutant: torch.any in place of torch.all in the non-force filter.
Remover_find_any(G, f) ==
    FilterSeq(InOrder(G.nodes),
              {n \in NodeIds :
                    /\ IsCallModule(G, n)
                    /\ IsEpsTunnel(G, n)
                    /\ (f \/ \E i \in DOMAIN TensorEq(G.eps_in[n], G.eps_out[n]) :
                                TensorEq(G.eps_in[n], G.eps_out[n])[i])})

\* Mutant: the forced filter lacks the isinstance test.
Remover_find_all_modules(G, f) ==
    FilterSeq(InOrder(G.nodes),
              {n \in NodeIds :
                    /\ IsCallModule(G, n)
                    /\ (f \/ (IsEpsTunnel(G, n)
                                /\ TorchAll(TensorEq(G.eps_in[n], G.eps_out[n]))))})

\* Mutant: the branches of the force test are swapped.
Remover_find_swapped(G, f) ==
    FilterSeq(InOrder(G.nodes),
              {n \in NodeIds :
                    /\ IsCallModule(G, n)
                    /\ IsEpsTunnel(G, n)
                    /\ (~f \/ TorchAll(TensorEq(G.eps_in[n], G.eps_out[n])))})

Remover_find(G, f) ==
    FilterSeq(InOrder(G.nodes),
              {n \in NodeIds :
                    /\ IsCallModule(G, n)
                    /\ IsEpsTunnel(G, n)
                    /\ (f \/ TorchAll(TensorEq(G.eps_in[n], G.eps_out[n])))})

\* The graph after find(g): the filter reads nodes, modules and eps tensors
\* and assigns to nothing of g.
Remover_find_graph(G, f) == G

\* _check_aps: pass.  It accepts every batch.
Remover_check_aps(G, batch) == TRUE

\* Mutant: the assertion on the downstream nodes is len(...) >= 1.
ApplyAsserts_some_user(G, n) ==
    /\ Cardinality(AllInputNodes(G, n)) = 1
    /\ Cardinality(G.users[n]) >= 1

\* The two assertions of _apply.
ApplyAsserts(G, n) ==
    /\ Cardinality(AllInputNodes(G, n)) = 1
    /\ Cardinality(G.users[n]) = 1

\* Mutant: the node is rewired around and its module deleted, but
\* g.graph.erase_node(n) is missing.
Remover_apply_no_erase(G, n) ==
    IF ~ApplyAsserts(G, n) THEN [ok |-> FALSE, g |-> G]
    ELSE LET un == CHOOSE p \in AllInputNodes(G, n) : TRUE
             dn == CHOOSE s \in G.users[n] : TRUE
             G1 == ReplaceInputWith(G, dn, n, un)
         IN  [ok |-> TRUE, g |-> DeleteSubmodule(G1, n)]

\* Mutant: the rewiring and the removal are done on a copy that is thrown
\* away; the graph that is returned is the one that was passed in, untouched.
Remover_apply_on_copy(G, n) ==
    IF ~ApplyAsserts(G, n) THEN [ok |-> FALSE, g |-> G]
    ELSE [ok |-> TRUE, g |-> G]

\* _apply: [ok |-> FALSE] is an error.  The AssertionErrors are raised before
\* any mutation; erase_node raises on a node that still has users.
Remover_apply(G, n) ==
    IF ~ApplyAsserts(G, n) THEN [ok |-> FALSE, g |-> G]
    ELSE LET un == CHOOSE p \in AllInputNodes(G, n) : TRUE
             dn == CHOOSE s \in G.users[n] : TRUE
             G1 == ReplaceInputWith(G, dn, n, un)
             G2 == DeleteSubmodule(G1, n)
         IN  IF G2.users[n] # {} THEN [ok |-> FALSE, g |-> G2]
             ELSE [ok |-> TRUE, g |-> EraseNode(G2, n)]

(***************************************************************************)
(* The graphs the rewriters are started on                                 *)
(***************************************************************************)
\* (eps_in, eps_out) of a traced tunnel: the identity at scale 1, the
\* identity at another scale, an integerising tunnel, and a per-channel
\* rescaling that agrees with 1 and with eps_in on one channel only.
EpsPairs == {<< <<1>>, <<1>> >>, << <<2>>, <<2>> >>, << <<2>>, <<1>> >>, << <<1>>, <<1, 2>> >>}

\* Argument tuples of node i: earlier nodes, as many as lens allows.
ArgSeqs(i, lens) ==
    {s \in UNION {[1..k -> 1..(i - 1)] : k \in lens} :
        \A j \in 1..(Len(s) - 1) : s[j] <= s[j + 1]}

NodeChoices(i) ==
    {[op |-> "call_module", cls |-> "EpsTunnel", args |-> a, eps_in |-> e[1], eps_out |-> e[2]] :
        a \in ArgSeqs(i, ArgLens), e \in EpsPairs}
    \cup {[op |-> "call_module", cls |-> "ReLU", args |-> <<a>>, eps_in |-> << >>, eps_out |-> << >>] :
        a \in 1..(i - 1)}
    \cup {[op |-> "call_function", cls |-> "none", args |-> a, eps_in |-> << >>, eps_out |-> << >>] :
        a \in ArgSeqs(i, ArgLens \ {1})}

\* The call nodes 2..k+1 of a graph, one choice each.
RECURSIVE Bodies(_)
Bodies(k) ==
    IF k = 0 THEN {<< >>}
    ELSE {Append(b, c) : b \in Bodies(k - 1), c \in NodeChoices(k + 1)}

\* placeholder 1, the call nodes body, and the output node returning outs.
MkGraph(body, outs) ==
    LET last  == Len(body) + 2
        nodes == 1..last
        args  == [n \in NodeIds |->
                    IF n = last THEN outs
                    ELSE IF n \in 2..(last - 1) THEN body[n - 1].args
                    ELSE << >>]
    IN  [nodes   |-> nodes,
         op      |-> [n \in NodeIds |->
                        IF n = 1 THEN "placeholder"
                        ELSE IF n = last THEN "output"
                        ELSE IF n < last THEN body[n - 1].op
                        ELSE "none"],
         cls     |-> [n \in NodeIds |-> IF n \in 2..(last - 1) THEN body[n - 1].cls ELSE "none"],
         args    |-> args,
         users   |-> UsersOf(nodes, args),
         mods    |-> {n \in 2..(last - 1) : body[n - 1].op = "call_module"},
         eps_in  |-> [n \in NodeIds |-> IF n \in 2..(last - 1) THEN body[n - 1].eps_in ELSE << >>],
         eps_out |-> [n \in NodeIds |-> IF n \in 2..(last - 1) THEN body[n - 1].eps_out ELSE << >>]]

\* The orders in which the application points of a list can be applied.
Orders(found) ==
    {o \in [1..Len(found) -> Range(found)] : \A i, j \in 1..Len(found) : i # j => o[i] # o[j]}

\* Lists of application points a caller may pass: tunnel nodes of G.
Batches(G) ==
    UNION {[1..k -> Range(EpsTunnelNodes(G))] : k \in 0..MaxBatch}

(***************************************************************************)
(* Forward evaluation of a graph                                           *)
(***************************************************************************)
RECURSIVE Pow2(_)
Pow2(k) == IF k = 0 THEN 1 ELSE 2 * Pow2(k - 1)

\* The input tensor: two channels, divisible by every product of eps values
\* a chain of tunnels of the graph can divide by.
InputTensor == <<Pow2(MaxNodes), 3 * Pow2(MaxNodes)>>

Channels == DOMAIN InputTensor

\* EpsTunnel.forward: x * eps_out / eps_in.
EpsTunnelForward(x, eps_in, eps_out) ==
    [c \in Channels |-> (x[c] * At(eps_out, c)) \div At(eps_in, c)]

ReLUForward(x) == [c \in Channels |-> IF x[c] > 0 THEN x[c] ELSE 0]

RECURSIVE SumTensors(_)
SumTensors(xs) ==
    IF xs = << >> THEN [c \in Channels |-> 0]
    ELSE LET rest == SumTensors(Tail(xs))
         IN  [c \in Channels |-> Head(xs)[c] + rest[c]]

\* The modules of G can be called: each gets one argument.
Evaluable(G) ==
    \A n \in G.nodes : G.op[n] = "call_module" => Len(G.args[n]) = 1

\* The tensor node n computes.
RECURSIVE Val(_, _)
Val(G, n) ==
    IF G.op[n] = "placeholder" THEN InputTensor
    ELSE IF G.cls[n] = "EpsTunnel"
        THEN EpsTunnelForward(Val(G, G.args[n][1]), G.eps_in[n], G.eps_out[n])
    ELSE IF G.cls[n] = "ReLU" THEN ReLUForward(Val(G, G.args[n][1]))
    ELSE SumTensors([i \in DOMAIN G.args[n] |-> Val(G, G.args[n][i])])

\* What the graph returns: the tensors of the output node's arguments.
Eval(G) ==
    LET out == CHOOSE n \in G.nodes : G.op[n] = "output"
    IN  [i \in DOMAIN G.args[out] |-> Val(G, G.args[out][i])]

\* Tuples of tunnel nodes of G, in graph order, as the two sides of a construct.
TunnelTuples(G) == {InOrder(S) : S \in SUBSET Range(EpsTunnelNodes(G))}

(***************************************************************************)
(* PACT modules (algorithms/pact/pact_ops.py)                              *)
(*                                                                         *)
(* A module is a record: ok and error tell how __init__ ended, base that   *)
(* the constructor of the torch base class has run, attrs the attributes   *)
(* the instance has, and act_kind, init_clip, quantize the stored values   *)
(* of the enumerated arguments.                                            *)
(***************************************************************************)
\* Spellings of the enumerated string arguments a caller may pass.
Spellings ==
    {"relu", "ReLU", "relu6", "leaky_relu", "Leaky_ReLU", "identity",
     "max", "MAX", "std", "const", "sawb", "SAWB",
     "per_layer", "per_channel", "Per_Channel", "tanh"}

\* str.lower() on these spellings.
Lower(s) ==
    CASE s = "ReLU" -> "relu"
      [] s = "Leaky_ReLU" -> "leaky_relu"
      [] s = "MAX" -> "max"
      [] s = "SAWB" -> "sawb"
      [] s = "Per_Channel" -> "per_channel"
      [] OTHER -> s

\* assert value in valid_values: TRUE when the assertion passes.
assert_param_valid(value, valid_values) == value \in Range(valid_values)

NoModule ==
    [cls |-> "none", ok |-> TRUE, error |-> "none", base |-> FALSE, attrs |-> {},
     act_kind |-> "unset", init_clip |-> "unset", quantize |-> "unset", started |-> FALSE]

Raise(m, e) == [m EXCEPT !.ok = FALSE, !.error = e]

\* What torch.nn.Conv2d / Conv1d / Linear.__init__ leave on the instance, as
\* far as the PACT code reads it.
ConvBaseAttrs == {"weight", "bias", "out_channels"}
LinearBaseAttrs == {"weight", "bias", "out_features"}

PACTUnsignedAct_init(init_clip, act_kind) ==
    LET m0 == [NoModule EXCEPT !.cls = "PACTUnsignedAct", !.base = TRUE]
        ak == Lower(act_kind)
        ic == Lower(init_clip)
    IN  IF ~assert_param_valid(ak, <<"relu", "relu6", "leaky_relu">>)
            THEN Raise(m0, "AssertionError")
        ELSE IF ~assert_param_valid(ic, <<"max", "std", "const">>)
            THEN Raise(m0, "AssertionError")
        ELSE [m0 EXCEPT !.attrs = {"n_levels", "clip_hi", "clipping_params", "act_kind",
                                   "init_clip", "nb_std", "leaky", "started",
                                   "max", "min", "running_mean", "running_var"},
                        !.act_kind = ak,
                        !.init_clip = ic]

\* The statistics tensors are shaped like self.alpha.data: reading an
\* attribute the instance does not have raises AttributeError.
PACTAsymmetricAct_init(init_clip, act_kind) ==
    LET m0 == [NoModule EXCEPT !.cls = "PACTAsymmetricAct", !.base = TRUE]
        ak == Lower(act_kind)
        ic == Lower(init_clip)
        m1 == [m0 EXCEPT !.attrs = {"n_levels", "clip_lo", "clip_hi", "clipping_params",
                                    "act_kind", "leaky", "init_clip", "nb_std", "symm",
                                    "started"},
                         !.act_kind = ak,
                         !.init_clip = ic]
    IN  IF ~assert_param_valid(ak, <<"identity", "relu", "relu6", "leaky_relu">>)
            THEN Raise(m0, "AssertionError")
        ELSE IF ~assert_param_valid(ic, <<"max", "std", "const">>)
            THEN Raise(m0, "AssertionError")
        ELSE IF "alpha" \notin m1.attrs
            THEN Raise(m1, "AttributeError")
        ELSE [m1 EXCEPT !.attrs = @ \cup {"max", "min", "running_mean", "running_var"}]

\* The body the three weight-quantising layers share: the arguments are
\* checked before the base constructor runs.
PACTWeights_init(cls, baseattrs, quantize, init_clip) ==
    LET m0 == [NoModule EXCEPT !.cls = cls]
        q  == Lower(quantize)
        ic == Lower(init_clip)
    IN  IF ~assert_param_valid(q, <<"per_layer", "per_channel">>)
            THEN Raise(m0, "AssertionError")
        ELSE IF ~assert_param_valid(ic, <<"max", "std", "sawb">>)
            THEN Raise(m0, "AssertionError")
        ELSE [m0 EXCEPT !.base = TRUE,
                        !.attrs = baseattrs \cup
                                  {"n_levels", "quantize", "init_clip", "learn_clip",
                                   "started", "symm_wts", "nb_std", "clip_lo", "clip_hi",
                                   "clipping_params", "frozen"},
                        !.quantize = q,
                        !.init_clip = ic]

PACTConv2d_init(quantize, init_clip) ==
    PACTWeights_init("PACTConv2d", ConvBaseAttrs, quantize, init_clip)

PACTConv1d_init(quantize, init_clip) ==
    PACTWeights_init("PACTConv1d", ConvBaseAttrs, quantize, init_clip)

PACTLinear_init(quantize, init_clip) ==
    PACTWeights_init("PACTLinear", LinearBaseAttrs, quantize, init_clip)

\* forward: out names what is applied to x; an attribute the instance lacks
\* raises AttributeError.
PACTUnsignedAct_forward(m) ==
    IF ~m.started
    THEN [ok |-> {"max", "min", "running_mean", "running_var"} \subseteq m.attrs,
          out |-> IF m.act_kind = "relu" THEN "relu"
                  ELSE IF m.act_kind = "relu6" THEN "relu6"
                  ELSE IF m.act_kind = "leaky_relu" THEN "leaky_relu"
                  ELSE "x"]
    ELSE [ok |-> {"clip_hi", "n_levels"} \subseteq m.attrs, out |-> "PACTQuantize"]

PACTAsymmetricAct_forward(m) ==
    IF ~m.started
    THEN [ok |-> {"max", "min", "running_mean", "running_var"} \subseteq m.attrs,
          out |-> IF m.act_kind = "identity" THEN "x"
                  ELSE IF m.act_kind = "relu" THEN "relu"
                  ELSE IF m.act_kind = "relu6" THEN "relu6"
                  ELSE IF m.act_kind = "leaky_relu" THEN "leaky_relu"
                  ELSE "None"]
    ELSE [ok |-> {"clip_hi", "clip_lo", "n_levels", "learn_clip", "symm"} \subseteq m.attrs,
          out |-> "PACTQuantize"]

PACTWeights_forward(m) ==
    IF m.started
    THEN [ok |-> {"learn_clip", "symm_wts", "clip_lo", "clip_hi", "n_levels", "weight", "bias"}
                    \subseteq m.attrs,
          out |-> "PACTQuantize"]
    ELSE [ok |-> {"weight", "bias"} \subseteq m.attrs, out |-> "weight"]

PactClasses == {"PACTUnsignedAct", "PACTAsymmetricAct", "PACTConv2d", "PACTConv1d", "PACTLinear"}

(***************************************************************************)
(* State                                                                   *)
(***************************************************************************)
VARIABLES
    g,      \* the fx.GraphModule
    force,  \* EpsTunnelRemover._force
    pc,     \* where the caller is
    mode,   \* "run": the fixpoint loop; "batch": one apply of a caller's batch
    runs,   \* runs of the fixpoint loop started so far
    aps,    \* application points of the batch still to apply
    g0,     \* the graph when the current batch started
    res,    \* the last call: name, arguments, outcome, graph before it
    pact    \* the PACT module under construction or in use

vars == <<g, force, pc, mode, runs, aps, g0, res, pact>>

NoRes == [call |-> "none", ok |-> TRUE, aps |-> << >>, arg |-> << >>, arg2 |-> << >>, pre |-> << >>]

\* A traced graph of 3..MaxNodes nodes, and a remover with the default force=True.
InitGraph ==
    /\ \E k \in 1..(MaxNodes - 2) :
          \E b \in Bodies(k) :
             \E o \in ArgSeqs(k + 2, ArgLens) :
                g = MkGraph(b, o)
    /\ force = TRUE
    /\ pc = "idle"
    /\ mode = "none"
    /\ runs = 0
    /\ aps = << >>
    /\ g0 = g
    /\ res = NoRes
    /\ pact = NoModule

(***************************************************************************)
(* Single calls on the current graph                                       *)
(***************************************************************************)
CallFinderFind ==
    /\ pc = "idle"
    /\ LET r == Finder_find(g)
       IN  res' = [NoRes EXCEPT !.call = "Finder.find", !.ok = r.ok, !.aps = r.aps, !.pre = g]
    /\ g' = Finder_find_graph(g)
    /\ pc' = "returned"
    /\ UNCHANGED <<force, mode, runs, aps, g0, pact>>

CallRemoverFind ==
    /\ pc = "idle"
    /\ \E f \in BOOLEAN :
          /\ force' = f
          /\ res' = [NoRes EXCEPT !.call = "Remover.find", !.aps = Remover_find(g, f), !.pre = g]
          /\ g' = Remover_find_graph(g, f)
    /\ pc' = "returned"
    /\ UNCHANGED <<mode, runs, aps, g0, pact>>

\* find is called once more on the graph the first call left; res.arg and
\* res.arg2 keep what the first call returned.
CallFinderFindAgain ==
    /\ pc = "returned"
    /\ res.call = "Finder.find"
    /\ LET r == Finder_find(g)
       IN  res' = [NoRes EXCEPT !.call = "Finder.find", !.ok = r.ok, !.aps = r.aps,
                                !.arg = res.aps, !.arg2 = <<res.ok>>, !.pre = g]
    /\ g' = Finder_find_graph(g)
    /\ pc' = "again"
    /\ UNCHANGED <<force, mode, runs, aps, g0, pact>>

CallRemoverFindAgain ==
    /\ pc = "returned"
    /\ res.call = "Remover.find"
    /\ res' = [NoRes EXCEPT !.call = "Remover.find", !.aps = Remover_find(g, force),
                            !.arg = res.aps, !.arg2 = <<res.ok>>, !.pre = g]
    /\ g' = Remover_find_graph(g, force)
    /\ pc' = "again"
    /\ UNCHANGED <<force, mode, runs, aps, g0, pact>>

CallCheckCommutativity ==
    /\ pc = "idle"
    /\ \E batch \in Batches(g) :
          res' = [NoRes EXCEPT !.call = "check_aps_commutativity",
                               !.ok = check_aps_commutativity(batch), !.arg = batch, !.pre = g]
    /\ pc' = "returned"
    /\ UNCHANGED <<g, force, mode, runs, aps, g0, pact>>

CallConstructApply ==
    /\ pc = "idle"
    /\ \E backward \in TunnelTuples(g), forward \in TunnelTuples(g) :
          /\ g' = Construct_apply(g, backward, forward)
          /\ res' = [NoRes EXCEPT !.call = "Construct._apply",
                                  !.arg = backward, !.arg2 = forward, !.pre = g]
    /\ pc' = "returned"
    /\ UNCHANGED <<force, mode, runs, aps, g0, pact>>

(***************************************************************************)
(* The Rewriter: find -> check -> apply each -> find again                 *)
(***************************************************************************)
\* EpsTunnelRemover(force=f) is constructed and run on the graph.
StartRun ==
    /\ pc = "idle"
    /\ \E f \in BOOLEAN : force' = f
    /\ mode' = "run"
    /\ runs' = 1
    /\ pc' = "find"
    /\ UNCHANGED <<g, aps, g0, res, pact>>

\* A caller applies a batch of application points of its own.
StartBatch ==
    /\ pc = "idle"
    /\ \E batch \in Batches(g) : aps' = batch
    /\ mode' = "batch"
    /\ g0' = g
    /\ pc' = "check"
    /\ UNCHANGED <<g, force, runs, res, pact>>

\* A caller takes the application points of one find call and applies them
\* in an order of its choice.
StartOrder ==
    /\ pc = "idle"
    /\ \E f \in BOOLEAN :
          /\ force' = f
          /\ res' = [NoRes EXCEPT !.call = "Remover.find", !.aps = Remover_find(g, f), !.pre = g]
          /\ \E order \in Orders(Remover_find(g, f)) : aps' = order
    /\ mode' = "order"
    /\ g0' = g
    /\ pc' = "check"
    /\ UNCHANGED <<g, runs, pact>>

Find ==
    /\ pc = "find"
    /\ LET found == Remover_find(g, force)
       IN  /\ aps' = found
           /\ res' = [NoRes EXCEPT !.call = "Remover.find", !.aps = found, !.pre = g]
           /\ pc' = IF found = << >> THEN "converged" ELSE "check"
    /\ g0' = g
    /\ UNCHANGED <<g, force, mode, runs, pact>>

Check ==
    /\ pc = "check"
    /\ LET accepted == Remover_check_aps(g, aps)
       IN  /\ res' = [NoRes EXCEPT !.call = "_check_aps", !.ok = accepted, !.arg = aps, !.pre = g]
           /\ pc' = IF ~accepted THEN "rejected"
                    ELSE IF aps = << >> THEN "applied"
                    ELSE "apply"
    /\ UNCHANGED <<g, force, mode, runs, aps, g0, pact>>

\* One _apply of the batch; an AssertionError ends the rewriter.
Apply ==
    /\ pc = "apply"
    /\ aps # << >>
    /\ LET r == Remover_apply(g, Head(aps))
       IN  /\ g' = r.g
           /\ res' = [NoRes EXCEPT !.call = "_apply", !.ok = r.ok, !.arg = <<Head(aps)>>, !.pre = g]
           /\ aps' = IF r.ok THEN Tail(aps) ELSE aps
           /\ pc' = IF ~r.ok THEN "error"
                    ELSE IF Tail(aps) # << >> THEN "apply"
                    ELSE IF mode = "run" THEN "find"
                    ELSE "applied"
    /\ UNCHANGED <<force, mode, runs, g0, pact>>

\* The converged rewriter is run on its result once more.
RunAgain ==
    /\ pc = "converged"
    /\ runs < MaxRuns
    /\ runs' = runs + 1
    /\ pc' = "find"
    /\ UNCHANGED <<g, force, mode, aps, g0, res, pact>>

(***************************************************************************)
(* PACT modules: construction, start by the controller, forward            *)
(***************************************************************************)
\* No graph is involved: the graph is input -> output throughout.
InitPact ==
    /\ g = MkGraph(<< >>, <<1>>)
    /\ force = TRUE
    /\ pc = "idle"
    /\ mode = "none"
    /\ runs = 0
    /\ aps = << >>
    /\ g0 = g
    /\ res = NoRes
    /\ pact = NoModule

\* cls(a, b): a, b are init_clip, act_kind of an activation and quantize,
\* init_clip of a weight-quantising layer.
PactConstruct ==
    /\ pc = "idle"
    /\ \E cls \in PactClasses, a \in Spellings, b \in Spellings :
          LET m == CASE cls = "PACTUnsignedAct" -> PACTUnsignedAct_init(a, b)
                     [] cls = "PACTAsymmetricAct" -> PACTAsymmetricAct_init(a, b)
                     [] cls = "PACTConv2d" -> PACTConv2d_init(a, b)
                     [] cls = "PACTConv1d" -> PACTConv1d_init(a, b)
                     [] cls = "PACTLinear" -> PACTLinear_init(a, b)
          IN  /\ pact' = m
              /\ res' = [NoRes EXCEPT !.call = "__init__", !.ok = m.ok, !.arg = <<cls, a, b>>]
              /\ pc' = IF m.ok THEN "constructed" ELSE "failed"
    /\ UNCHANGED <<g, force, mode, runs, aps, g0>>

\* The controller switches quantisation on.
PactStart ==
    /\ pc = "constructed"
    /\ ~pact.started
    /\ pact' = [pact EXCEPT !.started = TRUE]
    /\ UNCHANGED <<g, force, pc, mode, runs, aps, g0, res>>

PactForward ==
    /\ pc = "constructed"
    /\ LET r == CASE pact.cls = "PACTUnsignedAct" -> PACTUnsignedAct_forward(pact)
                  [] pact.cls = "PACTAsymmetricAct" -> PACTAsymmetricAct_forward(pact)
                  [] OTHER -> PACTWeights_forward(pact)
       IN  res' = [NoRes EXCEPT !.call = "forward", !.ok = r.ok, !.arg = <<pact.cls, r.out>>]
    /\ pc' = "forwarded"
    /\ UNCHANGED <<g, force, mode, runs, aps, g0, pact>>

(***************************************************************************)
(* Specifications                                                          *)
(***************************************************************************)
NextPact == PactConstruct \/ PactStart \/ PactForward

SpecPact == InitPact /\ [][NextPact]_vars

NextFind == CallFinderFind \/ CallRemoverFind

SpecFind == InitGraph /\ [][NextFind]_vars

NextFindTwice ==
    \/ CallFinderFind
    \/ CallRemoverFind
    \/ CallFinderFindAgain
    \/ CallRemoverFindAgain

SpecFindTwice == InitGraph /\ [][NextFindTwice]_vars

NextCheck == CallCheckCommutativity

SpecCheck == InitGraph /\ [][NextCheck]_vars

NextConstruct == CallConstructApply

SpecConstruct == InitGraph /\ [][NextConstruct]_vars

NextBatch == StartBatch \/ Check \/ Apply

SpecBatch == InitGraph /\ [][NextBatch]_vars

NextOrder == StartOrder \/ Check \/ Apply

SpecOrder == InitGraph /\ [][NextOrder]_vars

\* One run of the rewriter.  The loop is sequential code that never blocks:
\* whenever a step is possible, it is taken.
NextLoop == StartRun \/ Find \/ Check \/ Apply

SpecLoop == InitGraph /\ [][NextLoop]_vars /\ WF_vars(NextLoop)

Next == StartRun \/ Find \/ Check \/ Apply \/ RunAgain

Spec == InitGraph /\ [][Next]_vars

(***************************************************************************)
(* Properties                                                              *)
(***************************************************************************)
\* A live call node whose module is an EpsTunnel.
TunnelNode(G, n) == n \in G.nodes /\ G.op[n] = "call_module" /\ G.cls[n] = "EpsTunnel"

\* The tunnel's only consumer is the graph's output node.
OutputAdjacent(G, n) ==
    \E u \in G.nodes : G.users[n] = {u} /\ G.op[u] = "output"

\* t1 and t2, broadcast to a common length, are the same tensor.
Broadcast(t, len) == [i \in 1..len |-> IF Len(t) = 1 THEN t[1] ELSE t[i]]
SameTensor(t1, t2) ==
    LET len == IF Len(t1) >= Len(t2) THEN Len(t1) ELSE Len(t2)
    IN  Broadcast(t1, len) = Broadcast(t2, len)
AllOnes(t) == \A i \in 1..Len(t) : t[i] = 1

IdentityTunnel(G, n) == SameTensor(G.eps_in[n], G.eps_out[n])

IntegerisedPlaceholder(G, n) ==
    /\ \E p \in NodeIds : Range(G.args[n]) = {p} /\ G.op[p] = "placeholder"
    /\ AllOnes(G.eps_out[n])

NoDuplicates(s) == \A i, j \in DOMAIN s : i # j => s[i] # s[j]

\* The graph input -> Tunnel(eps_in = eps_out # 1) -> output.
TunnelBeforeOutputGraph(G) ==
    /\ G.nodes = {1, 2, 3}
    /\ TunnelNode(G, 2) /\ G.args[2] = <<1>> /\ G.args[3] = <<2>>
    /\ G.eps_in[2] = <<2>> /\ G.eps_out[2] = <<2>>

\* C1: EpsTunnelRemoverFinder.find never returns a tunnel whose only user is
\* the output node; on input -> Tunnel(eps, eps) -> output it returns the
\* empty list.
C1_OutputAdjacentNeverFound ==
    res.call = "Finder.find" =>
        /\ \A i \in DOMAIN res.aps :
              ~(TunnelNode(g, res.aps[i]) /\ OutputAdjacent(g, res.aps[i]))
        /\ TunnelBeforeOutputGraph(g) => (res.ok /\ res.aps = << >>)

C1_Witness ==
    /\ res.call = "Finder.find"
    /\ res.ok
    /\ TunnelBeforeOutputGraph(g)
    /\ res.aps = << >>

\* The application points the finder is specified to return.
RemovableTunnels(G) ==
    {n \in G.nodes :
        /\ TunnelNode(G, n)
        /\ IdentityTunnel(G, n) \/ IntegerisedPlaceholder(G, n)
        /\ ~OutputAdjacent(G, n)}

EveryTunnelHasOnePredecessor(G) ==
    \A n \in G.nodes : TunnelNode(G, n) => Cardinality(Range(G.args[n])) = 1

\* C2: on a graph whose tunnels have one predecessor each, find returns
\* exactly the tunnels that are an identity or an integerised placeholder
\* and are not alone before the output, each of them once.
C2_FinderFindsExactlyRemovable ==
    (res.call = "Finder.find" /\ EveryTunnelHasOnePredecessor(g)) =>
        /\ res.ok
        /\ Range(res.aps) = RemovableTunnels(g)
        /\ NoDuplicates(res.aps)

\* A tunnel with a consumer, found by the integerised-placeholder pass alone.
C2_Witness ==
    /\ res.call = "Finder.find"
    /\ EveryTunnelHasOnePredecessor(g)
    /\ \E n \in Range(res.aps) :
          /\ IntegerisedPlaceholder(g, n)
          /\ ~IdentityTunnel(g, n)
          /\ g.users[n] # {}

\* The node the last _apply was called on.
Applied == res.arg[1]

\* The graph input -> TunnelB(eps_in = 1, eps_out = 1) -> ReLU -> output.
TunnelBeforeReLUGraph(G) ==
    /\ G.nodes = {1, 2, 3, 4}
    /\ TunnelNode(G, 2) /\ G.cls[3] = "ReLU"
    /\ G.args[2] = <<1>> /\ G.args[3] = <<2>> /\ G.args[4] = <<3>>
    /\ G.eps_in[2] = <<1>> /\ G.eps_out[2] = <<1>>

\* s with every occurrence of old replaced by new.
Rewired(s, old, new) == [i \in DOMAIN s |-> IF s[i] = old THEN new ELSE s[i]]

\* G and H agree on everything but the edges: the nodes other than n, their
\* opcodes, their modules and the eps of their tunnels.
SameNodesBut(G, H, n) ==
    /\ H.nodes = G.nodes \ {n}
    /\ H.mods = G.mods \ {n}
    /\ \A m \in H.nodes :
          /\ H.op[m] = G.op[m] /\ H.cls[m] = G.cls[m]
          /\ H.eps_in[m] = G.eps_in[m] /\ H.eps_out[m] = G.eps_out[m]

\* C3: _apply on a tunnel n with one predecessor p and one user d erases n
\* and its module, makes every slot of d that held n hold p, puts d among
\* p's users, leaves n in no node's inputs or users, and changes nothing else.
C3_ApplySplicesTunnelOut ==
    (res.call = "_apply" /\ TunnelNode(res.pre, Applied)) =>
        \A p, d \in NodeIds :
            (Range(res.pre.args[Applied]) = {p} /\ res.pre.users[Applied] = {d}) =>
                /\ res.ok
                /\ Cardinality(g.nodes) = Cardinality(res.pre.nodes) - 1
                /\ SameNodesBut(res.pre, g, Applied)
                /\ g.args[d] = Rewired(res.pre.args[d], Applied, p)
                /\ d \in g.users[p]
                /\ g.users[p] = (res.pre.users[p] \ {Applied}) \cup {d}
                /\ \A m \in g.nodes :
                      /\ Applied \notin Range(g.args[m])
                      /\ Applied \notin g.users[m]
                      /\ m # d => g.args[m] = res.pre.args[m]
                      /\ m # p => g.users[m] = res.pre.users[m]
                /\ TunnelBeforeReLUGraph(res.pre) =>
                      (g.nodes = {1, 3, 4} /\ g.args[3] = <<1>> /\ g.args[4] = <<3>>)

C3_Witness ==
    /\ res.call = "_apply"
    /\ res.ok
    /\ TunnelBeforeReLUGraph(res.pre)
    /\ g.nodes = {1, 3, 4}
    /\ g.args[3] = <<1>>

\* C9: _apply on a node with other than one distinct predecessor or other
\* than one distinct user fails, and the failing call changes nothing.
C9_ApplyFailsWithoutMutation ==
    (/\ res.call = "_apply"
     /\ \/ Cardinality(Range(res.pre.args[Applied])) # 1
        \/ Cardinality(res.pre.users[Applied]) # 1) =>
        /\ ~res.ok
        /\ g = res.pre

\* A tunnel that feeds two consumers.
C9_Witness ==
    /\ res.call = "_apply"
    /\ ~res.ok
    /\ Cardinality(Range(res.pre.args[Applied])) = 1
    /\ Cardinality(res.pre.users[Applied]) = 2
    /\ g = res.pre

\* C10: when an application point of a batch violates the structural
\* assumption, the graph is left as it was when the batch started.
C10_FailedBatchRestoresGraph ==
    (mode = "run" /\ pc = "error") => g = g0

\* A tunnel find selects: any tunnel in force mode, an identity tunnel otherwise.
Selected(G, f, n) == TunnelNode(G, n) /\ (f \/ IdentityTunnel(G, n))

\* C5: on the graph the rewriter converged on, no tunnel that find selects
\* is left, and a second run finds nothing and leaves the graph as it is.
C5_SecondRunChangesNothing ==
    /\ (mode = "run" /\ pc = "converged") =>
          (res.aps = << >> /\ ~\E n \in g.nodes : Selected(g, force, n))
    /\ (mode = "run" /\ runs >= 2) =>
          /\ pc \in {"find", "converged"}
          /\ res.call = "Remover.find" /\ res.aps = << >>
          /\ g = g0

\* The second run has ended on a graph the first run removed a tunnel from.
C5_Witness ==
    /\ mode = "run" /\ runs = 2 /\ pc = "converged"
    /\ \E n \in NodeIds : n \notin g.nodes /\ g.op[n] = "call_module"
    /\ g = g0

\* C6 (as claimed): whatever tunnels a run of the remover takes out, the
\* graph returns the same tensors as before.
C6_RemovalKeepsOutput ==
    (mode = "run" /\ res.call = "_apply" /\ res.ok /\ Evaluable(res.pre)) =>
        Eval(g) = Eval(res.pre)

\* C6 (amended): removing a tunnel with eps_in == eps_out keeps the tensors
\* the graph returns, and so does every batch of the remover in non-force
\* mode.
C6_IdentityRemovalKeepsOutput ==
    /\ (res.call = "_apply" /\ res.ok /\ Evaluable(res.pre)
            /\ IdentityTunnel(res.pre, Applied)) =>
          Eval(g) = Eval(res.pre)
    /\ (mode = "run" /\ ~force /\ Evaluable(g0)) =>
          Eval(g) = Eval(g0)

\* An identity tunnel at a scale other than 1 was removed in non-force mode,
\* from a graph with a rescaling tunnel that stays.
C6_Witness ==
    /\ mode = "run" /\ ~force
    /\ res.call = "_apply" /\ res.ok /\ Evaluable(res.pre)
    /\ res.pre.eps_in[Applied] = <<2>>
    /\ \E n \in g.nodes : TunnelNode(g, n) /\ ~IdentityTunnel(g, n)
    /\ Eval(g) = Eval(g0)
    /\ Eval(g) # <<InputTensor>>

\* C7: check_aps_commutativity is true exactly when no node is referenced
\* by two application points of the list.
C7_CommutativityIffDistinct ==
    res.call = "check_aps_commutativity" => (res.ok <=> NoDuplicates(res.arg))

C7_Witness ==
    /\ res.call = "check_aps_commutativity"
    /\ Len(res.arg) = 2
    /\ res.arg[1] = res.arg[2]
    /\ ~res.ok

\* C8: _check_aps rejects a batch in which two application points reference
\* the same node, so no _apply of such a batch runs.
C8_CheckerRejectsOverlap ==
    /\ (res.call = "_check_aps" /\ ~NoDuplicates(res.arg)) => (~res.ok /\ pc = "rejected")
    /\ (res.call = "_apply") => NoDuplicates(<<Applied>> \o aps)

\* C4: after the construct applier, the backward tunnels have eps_out == 1,
\* the forward tunnels have eps_in == 1, and the nodes are the same.
C4_ConstructReconciled ==
    res.call = "Construct._apply" =>
        /\ \A n \in Range(res.arg) : AllOnes(g.eps_out[n])
        /\ \A n \in Range(res.arg2) : AllOnes(g.eps_in[n])
        /\ g.nodes = res.pre.nodes
        /\ Cardinality(g.nodes) = Cardinality(res.pre.nodes)

\* A backward tunnel and another, forward tunnel, neither at scale 1 before.
C4_Witness ==
    /\ res.call = "Construct._apply"
    /\ \E n \in Range(res.arg), m \in Range(res.arg2) :
          /\ n # m
          /\ ~AllOnes(res.pre.eps_out[n]) /\ AllOnes(g.eps_out[n])
          /\ ~AllOnes(res.pre.eps_in[m]) /\ AllOnes(g.eps_in[m])

\* C11: EpsTunnelRemover.find never selects, and the remover never removes,
\* a tunnel whose only consumer is the output node; on
\* input -> TunnelA(eps, eps) -> output find returns the empty list and the
\* rewriter converges with the graph as it was.
C11_RemoverKeepsOutputAdjacent ==
    /\ res.call = "Remover.find" =>
          /\ \A i \in DOMAIN res.aps :
                ~(TunnelNode(res.pre, res.aps[i]) /\ OutputAdjacent(res.pre, res.aps[i]))
          /\ TunnelBeforeOutputGraph(res.pre) => (res.aps = << >> /\ pc = "converged")
    /\ (res.call = "_apply" /\ res.ok /\ TunnelNode(res.pre, Applied)) =>
          ~OutputAdjacent(res.pre, Applied)

\* The EpsTunnel call-nodes of G.
TunnelCount(G) == Cardinality({n \in G.nodes : TunnelNode(G, n)})

\* C12: the loop find -> check -> apply-all -> find ends, with find returning
\* the empty list or with an error; each successful _apply leaves strictly
\* fewer tunnel nodes and no step adds one.
C12_LoopTerminates ==
    /\ <>(pc \in {"converged", "error"})
    /\ [][/\ TunnelCount(g') <= TunnelCount(g)
          /\ (pc = "apply" /\ res'.ok) => TunnelCount(g') < TunnelCount(g)]_vars

\* A variant of the loop: four times the tunnel nodes left plus the steps
\* left in the current round.  Every step of the loop lowers it, and a loop
\* that has not ended can take a step.
LoopRank ==
    4 * TunnelCount(g) +
        (CASE pc = "idle" -> 4 [] pc = "find" -> 3 [] pc = "check" -> 2
           [] pc = "apply" -> 1 [] OTHER -> 0)

LoopCanStep == pc \in {"idle", "find", "check"} \/ (pc = "apply" /\ aps # << >>)

LoopRankDecreases ==
    [][/\ LoopRank' < LoopRank
       /\ pc' \notin {"converged", "error"} => LoopCanStep']_vars

\* The loop has converged after removing two tunnels.
C12_Witness ==
    /\ mode = "run" /\ pc = "converged"
    /\ res.call = "Remover.find" /\ res.aps = << >>
    /\ Cardinality({n \in NodeIds : n \notin g.nodes /\ g.op[n] = "call_module"}) = 2

ValidFirst(cls) ==
    IF cls \in {"PACTUnsignedAct", "PACTAsymmetricAct"} THEN {"max", "std", "const"}
    ELSE {"per_layer", "per_channel"}
ValidSecond(cls) ==
    IF cls = "PACTUnsignedAct" THEN {"relu", "relu6", "leaky_relu"}
    ELSE IF cls = "PACTAsymmetricAct" THEN {"identity", "relu", "relu6", "leaky_relu"}
    ELSE {"max", "std", "sawb"}
ValidArguments(call) ==
    /\ Lower(call[2]) \in ValidFirst(call[1])
    /\ Lower(call[3]) \in ValidSecond(call[1])

\* C14: a PACT constructor given an enumerated argument outside its valid
\* set fails with no attribute set on the module; given valid arguments it
\* succeeds; and forward raises no error.
C14_PactConstructorsValidate ==
    /\ res.call = "__init__" =>
          /\ ~ValidArguments(res.arg) => (~pact.ok /\ pact.attrs = {})
          /\ ValidArguments(res.arg) => pact.ok
    /\ res.call = "forward" => res.ok

\* C15: the construct applier changes eps_out of the backward tunnels and
\* eps_in of the forward tunnels and nothing else: every other eps tensor,
\* the nodes, their opcodes, modules and edges are as before the call.
C15_ConstructChangesOnlyBoundaryEps ==
    res.call = "Construct._apply" =>
        /\ \A n \in NodeIds :
              /\ n \notin Range(res.arg) => g.eps_out[n] = res.pre.eps_out[n]
              /\ n \notin Range(res.arg2) => g.eps_in[n] = res.pre.eps_in[n]
        /\ g.nodes = res.pre.nodes /\ g.mods = res.pre.mods
        /\ g.op = res.pre.op /\ g.cls = res.pre.cls
        /\ g.args = res.pre.args /\ g.users = res.pre.users

\* A tunnel only in backward keeps its eps_in = 2 while its eps_out goes to 1,
\* and a tunnel only in forward keeps its eps_out = 2 while its eps_in goes to 1.
C15_Witness ==
    /\ res.call = "Construct._apply"
    /\ \E n \in Range(res.arg) \ Range(res.arg2), m \in Range(res.arg2) \ Range(res.arg) :
          /\ res.pre.eps_in[n] = <<2>> /\ res.pre.eps_out[n] = <<2>>
          /\ g.eps_in[n] = <<2>> /\ g.eps_out[n] = <<1>>
          /\ res.pre.eps_in[m] = <<2>> /\ res.pre.eps_out[m] = <<2>>
          /\ g.eps_in[m] = <<1>> /\ g.eps_out[m] = <<2>>

\* C16: EpsTunnelRemover.find with force=False returns exactly the EpsTunnel
\* call-nodes with eps_in == eps_out elementwise, with force=True exactly the
\* EpsTunnel call-nodes, and in both modes each node once.
C16_FindHonoursForce ==
    res.call = "Remover.find" =>
        /\ ~force =>
              /\ Range(res.aps) = {n \in res.pre.nodes :
                                      TunnelNode(res.pre, n) /\ IdentityTunnel(res.pre, n)}
              /\ \A i \in DOMAIN res.aps : IdentityTunnel(res.pre, res.aps[i])
        /\ force => Range(res.aps) = {n \in res.pre.nodes : TunnelNode(res.pre, n)}
        /\ \A i \in DOMAIN res.aps : TunnelNode(res.pre, res.aps[i])
        /\ NoDuplicates(res.aps)

\* In identity-only mode find returns the identity tunnel of a graph and not
\* its per-channel tunnel, whose eps agree on one channel only.
C16_Witness ==
    /\ res.call = "Remover.find"
    /\ ~force
    /\ Len(res.aps) = 1
    /\ IdentityTunnel(g, res.aps[1])
    /\ \E n \in g.nodes :
          /\ TunnelNode(g, n) /\ n \notin Range(res.aps)
          /\ g.eps_in[n] = <<1>> /\ g.eps_out[n] = <<1, 2>>

\* Every tunnel of G has one predecessor and one consumer.
OneInOneOut(G) ==
    \A n \in G.nodes :
        TunnelNode(G, n) => (Cardinality(Range(G.args[n])) = 1 /\ Cardinality(G.users[n]) = 1)

\* The nearest node at or above n that is not in S, along single predecessors.
RECURSIVE Resolve(_, _, _)
Resolve(G, S, n) == IF n \in S THEN Resolve(G, S, G.args[n][1]) ELSE n

\* G with the tunnels S spliced out: every argument that led into S now names
\* the node the chain of removed tunnels started from.
SplicedOut(G, S) ==
    LET nodes == G.nodes \ S
        args  == [m \in NodeIds |->
                    IF m \in S THEN << >>
                    ELSE [i \in DOMAIN G.args[m] |-> Resolve(G, S, G.args[m][i])]]
    IN  [nodes   |-> nodes,
         op      |-> G.op,
         cls     |-> [m \in NodeIds |-> IF m \in S THEN "none" ELSE G.cls[m]],
         args    |-> args,
         users   |-> [m \in NodeIds |-> {u \in nodes : m \in Range(args[u])}],
         mods    |-> G.mods \ S,
         eps_in  |-> [m \in NodeIds |-> IF m \in S THEN << >> ELSE G.eps_in[m]],
         eps_out |-> [m \in NodeIds |-> IF m \in S THEN << >> ELSE G.eps_out[m]]]

\* C17: on a graph whose tunnels have one predecessor and one consumer each,
\* the application points of one find call can be applied in any order: every
\* _apply succeeds, and the graph at the end is the one with all of them
\* spliced out, whatever the order was.
C17_AnyOrderSameGraph ==
    (mode = "order" /\ OneInOneOut(g0)) =>
        /\ pc # "error"
        /\ res.call = "_apply" => res.ok
        /\ pc = "applied" =>
              g = SplicedOut(g0, {n \in g0.nodes : Selected(g0, force, n)})

\* Two tunnels in a row, the second removed first.
C17_Witness ==
    /\ mode = "order" /\ pc = "applied"
    /\ OneInOneOut(g0)
    /\ TunnelNode(g0, 2) /\ TunnelNode(g0, 3)
    /\ g0.args[2] = <<1>> /\ g0.args[3] = <<2>> /\ g0.args[4] = <<3>>
    /\ res.call = "_apply" /\ res.ok /\ res.arg = <<2>>
    /\ g.nodes = {1, 4} /\ g.args[4] = <<1>>

=============================================================================
